---- MODULE Spec2Model ----
(***************************************************************************)
(* A model of the QR code service: src/main.py (the FastAPI handlers       *)
(* generate_qr_png and get_history) and src/schemas.py (the Qr history     *)
(* schema).                                                                 *)
(*                                                                          *)
(* A Python string is a sequence of characters, so that strip(), upper(),   *)
(* int(), str(), the colour grammar and the URL parsers are computed rather *)
(* than assumed.  A character is a one-character string; a character TLA+   *)
(* cannot write is named by its code point, as in "U+000B".  The strings of *)
(* the model are made of printable ASCII characters and of the 29           *)
(* characters Python counts as whitespace.  Optional[T] is a set: {} is     *)
(* None and {v} is the value v.                                             *)
(***************************************************************************)
EXTENDS Integers, Sequences, FiniteSets, TLC

VARIABLES
    store,      \* the "qr" collection of the persistence collaborator
    waiting,    \* the POST requests whose handlers wait in requests.get
    before,     \* the collection as it was when the last request was answered
    req,        \* the HTTP request answered last
    env,        \* what the outside world did during it (logo fetch, database)
    resp,       \* the HTTP response to it
    enc,        \* the arguments qrcode.QRCode was constructed with, if it was
    dbCalls,    \* the calls the handler made to the persistence collaborator
    logoIn,     \* ContainLogo: the QR image's size and the fetched logo's size
    logoOut     \* ContainLogo: the size the logo was resized to, once it was

vars == <<store, waiting, before, req, env, resp, enc, dbCalls, logoIn, logoOut>>

(***************************************************************************)
(* Bounds of the model.                                                     *)
(***************************************************************************)
MaxStore == 2       \* documents the collection holds at most
MaxWaiting == 1     \* handlers that wait in requests.get at the same time
MaxDocs == 2        \* documents a pre-populated collection holds at most
MaxLogoSide == 8    \* width and height of a fetched logo, in pixels

(***************************************************************************)
(* Python values.                                                           *)
(***************************************************************************)
None == {}
Some(v) == {v}
Get(o) == CHOOSE v \in o : TRUE

Min(a, b) == IF a < b THEN a ELSE b
Max(a, b) == IF a > b THEN a ELSE b
Range(s) == {s[i] : i \in 1..Len(s)}

\* the characters of a string written in ASCII
Chars(w) == IF w = "" THEN <<>> ELSE [i \in 1..Len(w) |-> SubSeq(w, i, i)]

Take(s, n) == SubSeq(s, 1, n)
Drop(s, n) == SubSeq(s, n + 1, Len(s))

\* the position of the first character of s that is in S; Len(s) + 1 if none
FirstIn(s, S) ==
    IF \E i \in 1..Len(s) : s[i] \in S
    THEN CHOOSE i \in 1..Len(s) : s[i] \in S /\ \A j \in 1..(i - 1) : s[j] \notin S
    ELSE Len(s) + 1

\* the position of the last c in s; 0 if none
LastOf(s, c) ==
    IF \E i \in 1..Len(s) : s[i] = c
    THEN CHOOSE i \in 1..Len(s) : s[i] = c /\ \A j \in (i + 1)..Len(s) : s[j] # c
    ELSE 0

\* s without its characters of S
Without(s, S) == SelectSeq(s, LAMBDA c : c \notin S)

\* the part of s before its first character of S; all of s if it has none
Before(s, S) == Take(s, FirstIn(s, S) - 1)

\* the part of s from its first character of S on
From(s, S) == Drop(s, FirstIn(s, S) - 1)

\* the part of s after its first character of S
After(s, S) == Drop(s, FirstIn(s, S))

\* the whitespace of ASCII: tab, line feed, vertical tab, form feed, carriage
\* return, the four separators U+001C to U+001F, and the space
AsciiWhitespace ==
    {"\t", "\n", "U+000B", "\f", "\r", "U+001C", "U+001D", "U+001E", "U+001F", " "}

\* the whitespace beyond ASCII
UnicodeWhitespace ==
    {"U+0085", "U+00A0", "U+1680", "U+2000", "U+2001", "U+2002", "U+2003",
     "U+2004", "U+2005", "U+2006", "U+2007", "U+2008", "U+2009", "U+200A",
     "U+2028", "U+2029", "U+202F", "U+205F", "U+3000"}

\* the characters c with c.isspace(): what str.strip() removes
Whitespace == AsciiWhitespace \cup UnicodeWhitespace

RECURSIVE LStripOf(_, _)
LStripOf(s, S) ==
    IF s = <<>> THEN s
    ELSE IF Head(s) \in S THEN LStripOf(Tail(s), S) ELSE s

RECURSIVE RStripOf(_, _)
RStripOf(s, S) ==
    IF s = <<>> THEN s
    ELSE IF s[Len(s)] \in S THEN RStripOf(Take(s, Len(s) - 1), S) ELSE s

\* str.lstrip()
LStrip(s) == LStripOf(s, Whitespace)

\* str.rstrip()
RStrip(s) == RStripOf(s, Whitespace)

\* str.strip()
Strip(s) == RStrip(LStrip(s))

LowerLetters == Chars("abcdefghijklmnopqrstuvwxyz")
UpperLetters == Chars("ABCDEFGHIJKLMNOPQRSTUVWXYZ")

UpperChar(c) ==
    IF c \in Range(LowerLetters)
    THEN UpperLetters[CHOOSE i \in 1..26 : LowerLetters[i] = c]
    ELSE c

LowerChar(c) ==
    IF c \in Range(UpperLetters)
    THEN LowerLetters[CHOOSE i \in 1..26 : UpperLetters[i] = c]
    ELSE c

\* str.upper()
Upper(s) == IF s = <<>> THEN s ELSE [i \in 1..Len(s) |-> UpperChar(s[i])]

\* str.lower()
Lower(s) == IF s = <<>> THEN s ELSE [i \in 1..Len(s) |-> LowerChar(s[i])]

Digits == {"0", "1", "2", "3", "4", "5", "6", "7", "8", "9"}

DigitVal(c) ==
    CASE c = "0" -> 0 [] c = "1" -> 1 [] c = "2" -> 2 [] c = "3" -> 3
      [] c = "4" -> 4 [] c = "5" -> 5 [] c = "6" -> 6 [] c = "7" -> 7
      [] c = "8" -> 8 [] c = "9" -> 9

DigitChar(d) ==
    CASE d = 0 -> "0" [] d = 1 -> "1" [] d = 2 -> "2" [] d = 3 -> "3"
      [] d = 4 -> "4" [] d = 5 -> "5" [] d = 6 -> "6" [] d = 7 -> "7"
      [] d = 8 -> "8" [] d = 9 -> "9"

\* The whitespace int() skips at both ends of a string: that of strip() but
\* for the separators U+001C to U+001F.
IntWhitespace == Whitespace \ {"U+001C", "U+001D", "U+001E", "U+001F"}

\* the digits of an int() argument, its whitespace and its sign removed
Unsigned(s) ==
    LET unsigned(t) == IF t # <<>> /\ Head(t) \in {"+", "-"} THEN Tail(t) ELSE t
    IN  unsigned(RStripOf(LStripOf(s, IntWhitespace), IntWhitespace))

\* Whether int(s) returns for the string s, rather than raising ValueError:
\* decimal digits, single underscores allowed between two of them.
IsNumeric(s) ==
    LET digits(t) ==
            /\ t # <<>>
            /\ Range(t) \subseteq Digits \cup {"_"}
            /\ t[1] \in Digits
            /\ t[Len(t)] \in Digits
            /\ \A i \in 1..(Len(t) - 1) : ~(t[i] = "_" /\ t[i + 1] = "_")
    IN  digits(Unsigned(s))

RECURSIVE DigitsValue(_)
DigitsValue(s) ==
    IF s = <<>> THEN 0
    ELSE 10 * DigitsValue(Take(s, Len(s) - 1)) + DigitVal(s[Len(s)])

\* int(s) for a string s with IsNumeric(s)
ParseInt(s) ==
    LET t == LStripOf(s, IntWhitespace)
        v == DigitsValue(Without(Unsigned(s), {"_"}))
    IN  IF Head(t) = "-" THEN 0 - v ELSE v

RECURSIVE NatToStr(_)
NatToStr(n) ==
    IF n < 10 THEN <<DigitChar(n)>>
    ELSE NatToStr(n \div 10) \o <<DigitChar(n % 10)>>

\* str(n) for an int n
IntToStr(n) == IF n < 0 THEN <<"-">> \o NatToStr(0 - n) ELSE NatToStr(n)

(***************************************************************************)
(* The request model, main.py QRRequest.                                    *)
(***************************************************************************)
DefaultFill == Chars("#111827")
DefaultBack == Chars("#ffffff")
DefaultBoxSize == 10
DefaultBorder == 4
DefaultEc == Chars("M")

\* A request body: the fields as sent, the names of the fields the body leaves
\* out, and the names of the fields whose JSON value has the wrong type.
ValidQRRequest(raw) == raw.illtyped = {} /\ "content" \notin raw.absent

\* The payload pydantic builds: a field left out takes its default.
QRRequest(raw) ==
    LET f == raw.fields
        a == raw.absent
    IN  [content |-> f.content,
         fill_color |-> IF "fill_color" \in a THEN DefaultFill ELSE f.fill_color,
         back_color |-> IF "back_color" \in a THEN DefaultBack ELSE f.back_color,
         box_size |-> IF "box_size" \in a THEN DefaultBoxSize ELSE f.box_size,
         border |-> IF "border" \in a THEN DefaultBorder ELSE f.border,
         error_correction |->
             IF "error_correction" \in a THEN DefaultEc ELSE f.error_correction,
         rounded |-> IF "rounded" \in a THEN TRUE ELSE f.rounded,
         logo_url |-> IF "logo_url" \in a THEN None ELSE f.logo_url]

(***************************************************************************)
(* HTTP responses.                                                          *)
(***************************************************************************)
Response(status, detail, png, json) ==
    [status |-> status, detail |-> detail, png |-> png, json |-> json]

NoResponse == Response(0, "", None, <<>>)
HTTPException(status, detail) == Response(status, detail, None, <<>>)
\* FastAPI's answer to a request that fails validation
UnprocessableEntity == Response(422, "validation error", None, <<>>)
\* FastAPI's answer to an exception the handler does not catch
InternalServerError == Response(500, "Internal Server Error", None, <<>>)
StreamingResponse(img) == Response(200, "", Some(img), <<>>)
JSONResponse(items) == Response(200, "", None, items)

(***************************************************************************)
(* The QR encoder (the qrcode library), main.py lines 93-101.               *)
(***************************************************************************)
EC_MAP ==
    [k \in {<<"L">>, <<"M">>, <<"Q">>, <<"H">>} |->
        CASE k = <<"L">> -> "ERROR_CORRECT_L"
          [] k = <<"M">> -> "ERROR_CORRECT_M"
          [] k = <<"Q">> -> "ERROR_CORRECT_Q"
          [] k = <<"H">> -> "ERROR_CORRECT_H"]

\* EC_MAP.get(key, default)
EcMapGet(key, default) == IF key \in DOMAIN EC_MAP THEN EC_MAP[key] ELSE default

\* the lookup without .upper()
EcLevelNoUpper(error_correction) == EcMapGet(error_correction, "ERROR_CORRECT_M")

\* EC_MAP.get(payload.error_correction.upper(), qconst.ERROR_CORRECT_M)
EcLevel(error_correction) == EcMapGet(Upper(error_correction), "ERROR_CORRECT_M")

\* qrcode.QRCode(...) raises ValueError for a box size below 1 and for a
\* negative border; nothing in the handler catches it.
QRCodeAccepts(call) == call.box_size > 0 /\ call.border >= 0

\* the colour names of Pillow's ImageColor.colormap
ColorNames ==
    {"aliceblue", "antiquewhite", "aqua", "aquamarine", "azure", "beige",
     "bisque", "black", "blanchedalmond", "blue", "blueviolet", "brown",
     "burlywood", "cadetblue", "chartreuse", "chocolate", "coral",
     "cornflowerblue", "cornsilk", "crimson", "cyan", "darkblue", "darkcyan",
     "darkgoldenrod", "darkgray", "darkgrey", "darkgreen", "darkkhaki",
     "darkmagenta", "darkolivegreen", "darkorange", "darkorchid", "darkred",
     "darksalmon", "darkseagreen", "darkslateblue", "darkslategray",
     "darkslategrey", "darkturquoise", "darkviolet", "deeppink",
     "deepskyblue", "dimgray", "dimgrey", "dodgerblue", "firebrick",
     "floralwhite", "forestgreen", "fuchsia", "gainsboro", "ghostwhite",
     "gold", "goldenrod", "gray", "grey", "green", "greenyellow", "honeydew",
     "hotpink", "indianred", "indigo", "ivory", "khaki", "lavender",
     "lavenderblush", "lawngreen", "lemonchiffon", "lightblue", "lightcoral",
     "lightcyan", "lightgoldenrodyellow", "lightgreen", "lightgray",
     "lightgrey", "lightpink", "lightsalmon", "lightseagreen",
     "lightskyblue", "lightslategray", "lightslategrey", "lightsteelblue",
     "lightyellow", "lime", "limegreen", "linen", "magenta", "maroon",
     "mediumaquamarine", "mediumblue", "mediumorchid", "mediumpurple",
     "mediumseagreen", "mediumslateblue", "mediumspringgreen",
     "mediumturquoise", "mediumvioletred", "midnightblue", "mintcream",
     "mistyrose", "moccasin", "navajowhite", "navy", "oldlace", "olive",
     "olivedrab", "orange", "orangered", "orchid", "palegoldenrod",
     "palegreen", "paleturquoise", "palevioletred", "papayawhip",
     "peachpuff", "peru", "pink", "plum", "powderblue", "purple",
     "rebeccapurple", "red", "rosybrown", "royalblue", "saddlebrown",
     "salmon", "sandybrown", "seagreen", "seashell", "sienna", "silver",
     "skyblue", "slateblue", "slategray", "slategrey", "snow", "springgreen",
     "steelblue", "tan", "teal", "thistle", "tomato", "turquoise", "violet",
     "wheat", "white", "whitesmoke", "yellow", "yellowgreen"}

HexDigits == Digits \cup {"a", "b", "c", "d", "e", "f"}

\* "#rgb", "#rgba", "#rrggbb" or "#rrggbbaa"; the "$" that ends each pattern of
\* ImageColor.getrgb also matches before a final line feed
IsHexColor(c) ==
    LET hex(d) ==
            /\ Len(d) \in {4, 5, 7, 9}
            /\ d[1] = "#"
            /\ \A i \in 2..Len(d) : d[i] \in HexDigits
    IN  hex(IF c # <<>> /\ c[Len(c)] = "\n" THEN Take(c, Len(c) - 1) ELSE c)

\* The steps of a pattern of ImageColor.getrgb: one character, \s*, \d+, and
\* \d+\.?\d*.
Lit(c) == [k |-> "lit", c |-> c]
Lits(w) == IF w = "" THEN <<>> ELSE [i \in 1..Len(w) |-> Lit(SubSeq(w, i, i))]
Spaces == [k |-> "spaces", c |-> ""]
Integer == [k |-> "integer", c |-> ""]
Number == [k |-> "number", c |-> ""]

\* re.match(pattern + "$", s): no step of these patterns can start where the
\* one before it could go on, so each takes all it can.
RECURSIVE Matches(_, _)
Matches(s, pattern) ==
    IF pattern = <<>> THEN s = <<>> \/ s = <<"\n">>
    ELSE LET p == Head(pattern)
             rest == Tail(pattern)
         IN  CASE p.k = "lit" ->
                    s # <<>> /\ Head(s) = p.c /\ Matches(Tail(s), rest)
               [] p.k = "spaces" -> Matches(LStrip(s), rest)
               [] p.k = "integer" ->
                    s # <<>> /\ Head(s) \in Digits /\ Matches(LStripOf(s, Digits), rest)
               [] p.k = "number" ->
                    /\ s # <<>>
                    /\ Head(s) \in Digits
                    /\ LET point(a) == IF a # <<>> /\ Head(a) = "." THEN Tail(a) ELSE a
                       IN  Matches(LStripOf(point(LStripOf(s, Digits)), Digits), rest)

\* \s*(value)unit\s* for each value, the values separated by commas and put
\* between the opening of the function and ")"
Functional(name, value, units) ==
    LET arg(i) == <<Spaces, value>> \o Lits(units[i]) \o <<Spaces>>
            \o (IF i < Len(units) THEN Lits(",") ELSE Lits(")"))
        args[i \in 0..Len(units)] == IF i = 0 THEN <<>> ELSE args[i - 1] \o arg(i)
    IN  Lits(name) \o Lits("(") \o args[Len(units)]

FunctionalColors ==
    {Functional("rgb", Integer, <<"", "", "">>),
     Functional("rgb", Integer, <<"%", "%", "%">>),
     Functional("hsl", Number, <<"", "%", "%">>),
     Functional("hsv", Number, <<"", "%", "%">>),
     Functional("hsb", Number, <<"", "%", "%">>),
     Functional("rgba", Integer, <<"", "", "", "">>)}

ColorMap == {Chars(n) : n \in ColorNames}

\* The longest colour ImageColor.getrgb reads
MaxColorLength == 100

\* Whether ImageColor.getrgb(color) returns, rather than raising ValueError
\* "color specifier is too long" or "unknown color specifier"
GetRgbAccepts(color) ==
    LET known(c) ==
            \/ c \in ColorMap
            \/ IsHexColor(c)
            \/ \E pattern \in FunctionalColors : Matches(c, pattern)
    IN  Len(color) <= MaxColorLength /\ known(Lower(color))

\* Whether qr.make_image(fill_color, back_color) returns: the image is created
\* with the background colour, "transparent" standing for none, and each dark
\* module is drawn with the fill colour; Pillow raises ValueError for a colour
\* it cannot read, and nothing in the handler catches it.
MakeImageAccepts(payload) ==
    /\ GetRgbAccepts(payload.fill_color)
    /\ \/ Lower(payload.back_color) = Chars("transparent")
       \/ GetRgbAccepts(payload.back_color)

\* The QR version make(fit=True) picks: every content of the model fits the
\* smallest one.
QrVersion == 1

\* The side of the image in pixels: 17 + 4 * version modules, and the border
\* on both sides, box_size pixels each.
QrSide(call) == (17 + 4 * QrVersion + 2 * call.border) * call.box_size

\* qr.make_image(fill_color, back_color).convert("RGBA"); the colours are
\* lower-cased before they are used
MakeImage(call, payload) ==
    [side |-> QrSide(call),
     content |-> payload.content,
     error_correction |-> call.error_correction,
     box_size |-> call.box_size,
     border |-> call.border,
     fill_color |-> Lower(payload.fill_color),
     back_color |-> Lower(payload.back_color),
     blur |-> 0,
     overlay |-> None]

(***************************************************************************)
(* Corner softening and logo overlay, main.py lines 43-65 and 103-121.      *)
(***************************************************************************)
\* img.putalpha(_rounded_square(alpha, radius)): the alpha channel blurred
\* with a Gaussian of radius / 3; the image records the radius.
RoundedSquare(img, radius) == [img EXCEPT !.blur = radius]

\* Python's truth value of Optional[str]: None and "" are false
Truthy(o) == o # None /\ Get(o) # <<>>

HttpSchemes == {Chars("http"), Chars("https")}

\* the characters of the model that Latin-1 does not have
NotLatin1 == UnicodeWhitespace \ {"U+0085", "U+00A0"}

\* Whether requests can write the Authorization header of a URL: the user
\* name and the password of a URL that has a password part, empty or not,
\* are encoded as Latin-1, and UnicodeEncodeError is raised for a character
\* that Latin-1 does not have.
BasicAuthEncodes(userinfo) ==
    ":" \in Range(userinfo) => Range(userinfo) \cap NotLatin1 = {}

\* the host and the port of an authority: what follows its last "@"
HostPort(authority) == Drop(authority, LastOf(authority, "@"))

RECURSIVE PortValue(_)
\* the number a string of digits stands for; once above 65535 it is not
\* computed further
PortValue(ds) ==
    IF ds = <<>> THEN 0
    ELSE LET next(p) == IF p > 65535 THEN p ELSE 10 * p + DigitVal(ds[Len(ds)])
         IN  next(PortValue(Take(ds, Len(ds) - 1)))

\* a port: no digits at all, or a number up to 65535
IsPort(ds) == Range(ds) \subseteq Digits /\ PortValue(ds) <= 65535

\* Whether requests.get(url) sends a request, rather than raising
\* MissingSchema, InvalidSchema or InvalidURL: leading whitespace is dropped,
\* the scheme is http or https in any case, "//" and a host follow, the host
\* starts with neither "*" nor ".", the port is one, and the Authorization
\* header can be written.  urllib3 reads host and port with a pattern that
\* ends in "$", which also matches before one line feed that ends the
\* authority: the port is read without it.  (Hosts written as IP literals,
\* and percent escapes in the host, the user name or the password, are not
\* among the model's URLs.)
RequestSent(url) ==
    LET read(port) ==
            IF port # <<>> /\ port[Len(port)] = "\n"
            THEN Take(port, Len(port) - 1) ELSE port
        located(host, port) ==
            /\ host # <<>>
            /\ Head(host) \notin {"*", "."}
            /\ Range(host) \cap ({"[", "]", "%"} \cup UnicodeWhitespace) = {}
            /\ IsPort(read(port))
        reached(authority) ==
            /\ located(Before(HostPort(authority), {":"}), After(HostPort(authority), {":"}))
            /\ BasicAuthEncodes(Take(authority, LastOf(authority, "@") - 1))
        sent(scheme, rest) ==
            /\ Lower(scheme) \in HttpSchemes
            /\ Len(rest) >= 2
            /\ Take(rest, 2) = Chars("//")
            /\ reached(Before(Drop(rest, 2), {"/", "\\", "?", "#"}))
        split(v) == sent(Before(v, {":"}), After(v, {":"}))
    IN  split(LStrip(url))

\* The ways requests.get, raise_for_status and Image.open can end.
FetchFailures == {"invalid_url", "network_error", "timeout", "http_error", "undecodable"}

NoFetch == [kind |-> "none", w |-> 0, h |-> 0]

\* the fetch without raise_for_status(): the body of an error response is
\* decoded as the logo
FetchLogoNoStatusCheck(url, fo) ==
    IF fo.kind = "ok" THEN Some([w |-> fo.w, h |-> fo.h])
    ELSE IF fo.kind = "http_error" THEN Some([w |-> 16, h |-> 16])
    ELSE None

\* _fetch_logo: the decoded image, or None for any exception
FetchLogo(url, fo) ==
    IF fo.kind = "ok" THEN Some([w |-> fo.w, h |-> fo.h]) ELSE None

\* round() of the quotient p / q of two positive integers: to the nearest
\* integer, a tie to the even one.  Python rounds the float h / w * target;
\* for the sizes of this model the float and the exact quotient round alike.
Round(p, q) ==
    LET fl == p \div q
        r2 == 2 * (p % q)
    IN  IF r2 < q THEN fl
        ELSE IF r2 > q THEN fl + 1
        ELSE IF fl % 2 = 0 THEN fl ELSE fl + 1

\* int(min(q_w, q_h) * 0.2)
LogoTarget(q_w, q_h) == (Min(q_w, q_h) * 2) \div 10

\* a resize to the target box that ignores the logo's aspect ratio
ContainStretch(logo, tw, th) == [w |-> tw, h |-> th]

\* ImageOps.contain(logo, (tw, th)): the size the logo is resized to
Contain(logo, tw, th) ==
    IF logo.w * th = logo.h * tw THEN [w |-> tw, h |-> th]
    ELSE IF logo.w * th > logo.h * tw
         THEN [w |-> tw, h |-> Round(logo.h * tw, logo.w)]
         ELSE [w |-> Round(logo.w * th, logo.h), h |-> th]

\* logo.resize(size), which ImageOps.contain ends with, raises ValueError for
\* a size with an empty side; nothing in the handler catches it.
ResizeAccepts(size) == size.w >= 1 /\ size.h >= 1

\* main.py lines 113-121: the backing square and the logo, both centred
Overlay(img, logo) ==
    LET target == LogoTarget(img.side, img.side)
        l == Contain(logo, target, target)
        bg == [w |-> l.w + 16, h |-> l.h + 16]
    IN  [img EXCEPT !.overlay =
            Some([bg |-> bg,
                  bg_pos |-> <<(img.side - bg.w) \div 2, (img.side - bg.h) \div 2>>,
                  bg_rgba |-> <<255, 255, 255, 220>>,
                  logo |-> l,
                  logo_src |-> logo,
                  pos |-> <<(img.side - l.w) \div 2, (img.side - l.h) \div 2>>])]

\* Whether line 115 raises: a logo was fetched, and its shorter side scales
\* to less than half a pixel.
LogoResizeRaises(img, logo_url, fo) ==
    /\ Truthy(logo_url)
    /\ FetchLogo(Get(logo_url), fo) # None
    /\ LET target == LogoTarget(img.side, img.side)
       IN  ~ResizeAccepts(Contain(Get(FetchLogo(Get(logo_url), fo)), target, target))

\* main.py lines 109-121
WithLogo(img, logo_url, fo) ==
    IF Truthy(logo_url)
    THEN LET logo == FetchLogo(Get(logo_url), fo)
         IN  IF logo # None THEN Overlay(img, Get(logo)) ELSE img
    ELSE img

(***************************************************************************)
(* The history schema, schemas.py Qr, and the documents of the collection.  *)
(* A document maps each field name to a cell: absent, null, a string or an  *)
(* integer.                                                                 *)
(***************************************************************************)
DocFields ==
    {"content", "fill_color", "back_color", "box_size", "border",
     "error_correction", "logo_url"}

AbsentCell == [t |-> "absent", s |-> <<>>, n |-> 0]
NullCell == [t |-> "null", s |-> <<>>, n |-> 0]
StrCell(s) == [t |-> "str", s |-> s, n |-> 0]
IntCell(n) == [t |-> "int", s |-> <<>>, n |-> n]

(***************************************************************************)
(* pydantic's HttpUrl, schemas.py line 54: the URL is parsed and written    *)
(* back by the rules of the WHATWG URL standard.  Hosts are registered      *)
(* names: IPv4 and IPv6 literals, percent escapes in the host and Punycode  *)
(* labels are not among the model's URLs.                                   *)
(***************************************************************************)
\* the characters "%XX" stands for are written in upper-case hexadecimal
PercentCode(c) ==
    CASE c = " " -> Chars("%20")   [] c = "\"" -> Chars("%22")
      [] c = "#" -> Chars("%23")   [] c = "'" -> Chars("%27")
      [] c = "/" -> Chars("%2F")   [] c = ":" -> Chars("%3A")
      [] c = ";" -> Chars("%3B")   [] c = "<" -> Chars("%3C")
      [] c = "=" -> Chars("%3D")   [] c = ">" -> Chars("%3E")
      [] c = "?" -> Chars("%3F")   [] c = "@" -> Chars("%40")
      [] c = "[" -> Chars("%5B")   [] c = "\\" -> Chars("%5C")
      [] c = "]" -> Chars("%5D")   [] c = "^" -> Chars("%5E")
      [] c = "U+0060" -> Chars("%60")   [] c = "{" -> Chars("%7B")
      [] c = "|" -> Chars("%7C")   [] c = "}" -> Chars("%7D")
      [] c = "\t" -> Chars("%09")  [] c = "\n" -> Chars("%0A")
      [] c = "U+000B" -> Chars("%0B")  [] c = "\f" -> Chars("%0C")
      [] c = "\r" -> Chars("%0D")
      [] c = "U+001C" -> Chars("%1C")  [] c = "U+001D" -> Chars("%1D")
      [] c = "U+001E" -> Chars("%1E")  [] c = "U+001F" -> Chars("%1F")
      [] c = "U+0085" -> Chars("%C2%85")  [] c = "U+00A0" -> Chars("%C2%A0")
      [] c = "U+1680" -> Chars("%E1%9A%80")
      [] c = "U+2000" -> Chars("%E2%80%80")  [] c = "U+2001" -> Chars("%E2%80%81")
      [] c = "U+2002" -> Chars("%E2%80%82")  [] c = "U+2003" -> Chars("%E2%80%83")
      [] c = "U+2004" -> Chars("%E2%80%84")  [] c = "U+2005" -> Chars("%E2%80%85")
      [] c = "U+2006" -> Chars("%E2%80%86")  [] c = "U+2007" -> Chars("%E2%80%87")
      [] c = "U+2008" -> Chars("%E2%80%88")  [] c = "U+2009" -> Chars("%E2%80%89")
      [] c = "U+200A" -> Chars("%E2%80%8A")
      [] c = "U+2028" -> Chars("%E2%80%A8")  [] c = "U+2029" -> Chars("%E2%80%A9")
      [] c = "U+202F" -> Chars("%E2%80%AF")  [] c = "U+205F" -> Chars("%E2%81%9F")
      [] c = "U+3000" -> Chars("%E3%80%80")

RECURSIVE PercentEncode(_, _)
\* s with each of its characters of S replaced by its percent code
PercentEncode(s, S) ==
    IF s = <<>> THEN <<>>
    ELSE IF Len(s) = 1 THEN (IF s[1] \in S THEN PercentCode(s[1]) ELSE s)
    ELSE PercentEncode(Take(s, Len(s) \div 2), S)
            \o PercentEncode(Drop(s, Len(s) \div 2), S)

\* the characters every part of a URL has encoded: the C0 controls and all
\* that is not ASCII
AlwaysEncoded == (AsciiWhitespace \ {" "}) \cup UnicodeWhitespace

FragmentEncodeSet == AlwaysEncoded \cup {" ", "\"", "<", ">", "U+0060"}
QueryEncodeSet == AlwaysEncoded \cup {" ", "\"", "#", "<", ">", "'"}
PathEncodeSet == FragmentEncodeSet \cup {"#", "?", "{", "}"}
UserinfoEncodeSet ==
    PathEncodeSet \cup {"/", ":", ";", "=", "@", "[", "\\", "]", "^", "|"}

\* the characters a domain must not hold
ForbiddenDomain ==
    Whitespace \cup {"#", "%", "/", ":", "<", ">", "?", "@", "[", "\\", "]", "^", "|"}

RECURSIVE Split(_, _)
\* s.split(sep)
Split(s, sep) ==
    LET i == FirstIn(s, {sep})
    IN  IF i > Len(s) THEN <<s>> ELSE <<Take(s, i - 1)>> \o Split(Drop(s, i), sep)

RECURSIVE Join(_, _)
\* sep.join(parts)
Join(parts, sep) ==
    IF parts = <<>> THEN <<>>
    ELSE IF Len(parts) = 1 THEN parts[1]
    ELSE parts[1] \o <<sep>> \o Join(Tail(parts), sep)

SingleDot == {Chars("."), Chars("%2e"), Chars("%2E")}
DoubleDot == {a \o b : a \in SingleDot, b \in SingleDot}

RECURSIVE PathSegments(_, _, _)
\* The segments of a path from the i-th on, added to the segments acc: ".."
\* takes the last segment away, "." adds nothing, and either leaves an empty
\* segment when it is the last.
PathSegments(segs, i, acc) ==
    IF i > Len(segs) THEN acc
    ELSE LET closing == IF i = Len(segs) THEN <<<<>>>> ELSE <<>>
         IN  IF segs[i] \in DoubleDot
             THEN PathSegments(segs, i + 1, Take(acc, Len(acc) - 1) \o closing)
             ELSE IF segs[i] \in SingleDot
             THEN PathSegments(segs, i + 1, acc \o closing)
             ELSE PathSegments(segs, i + 1,
                               Append(acc, PercentEncode(segs[i], PathEncodeSet)))

\* the path of a URL as it is written back; raw is empty or starts with a slash
UrlPath(raw) ==
    LET body == IF Len(raw) <= 1 THEN <<>>
                ELSE [i \in 1..(Len(raw) - 1) |->
                        IF raw[i + 1] = "\\" THEN "/" ELSE raw[i + 1]]
    IN  <<"/">> \o Join(PathSegments(Split(body, "/"), 1, <<>>), "/")

\* the user name and password before the host, as they are written back
UrlUserinfo(userinfo) ==
    LET colon == FirstIn(userinfo, {":"})
        username == Take(userinfo, colon - 1)
        hasPassword == colon < Len(userinfo)
    IN  PercentEncode(username, UserinfoEncodeSet)
            \o (IF hasPassword
                THEN <<":">> \o PercentEncode(Drop(userinfo, colon), UserinfoEncodeSet)
                ELSE <<>>)
            \o (IF username # <<>> \/ hasPassword THEN <<"@">> ELSE <<>>)

DefaultPort(scheme) == IF scheme = Chars("http") THEN 80 ELSE 443

\* the query of what follows the path of a URL: what is between "?" and "#"
UrlQuery(afterPath) ==
    IF afterPath # <<>> /\ Head(afterPath) = "?"
    THEN Some(SubSeq(afterPath, 2, FirstIn(afterPath, {"#"}) - 1))
    ELSE None

\* the fragment of what follows the path of a URL: what is after "#"
UrlFragment(afterPath) ==
    IF From(afterPath, {"#"}) # <<>> THEN Some(Tail(From(afterPath, {"#"}))) ELSE None

\* The parts of a URL: the C0 controls and the space, which are the whitespace
\* of ASCII in the model, are cut off both ends, tabs and line ends taken out, the scheme lower-cased, any number of slashes after it
\* skipped, the host lower-cased.
UrlParse(u) ==
    LET parts(scheme, authority, tail) ==
            [scheme |-> scheme,
             userinfo |-> Take(authority, LastOf(authority, "@") - 1),
             host |-> Lower(Before(HostPort(authority), {":"})),
             port |-> After(HostPort(authority), {":"}),
             path |-> Before(tail, {"?", "#"}),
             query |-> UrlQuery(From(tail, {"?", "#"})),
             fragment |-> UrlFragment(From(tail, {"?", "#"}))]
        hierarchy(scheme, rest) ==
            parts(scheme, Before(rest, {"/", "\\", "?", "#"}),
                  From(rest, {"/", "\\", "?", "#"}))
        split(s) ==
            hierarchy(Lower(Before(s, {":"})), LStripOf(After(s, {":"}), {"/", "\\"}))
    IN  split(Without(RStripOf(LStripOf(u, AsciiWhitespace), AsciiWhitespace),
                      {"\t", "\n", "\r"}))

\* HttpUrl has max_length 2083
MaxUrlLength == 2083

\* The length the limit is compared with: that of the string as it is given,
\* in bytes of UTF-8, one for a character of ASCII, two up to U+07FF, and
\* three for the others of the model.
Utf8Len(u) ==
    Len(u) + Len(SelectSeq(u, LAMBDA c : c \in UnicodeWhitespace))
           + Len(SelectSeq(u, LAMBDA c : c \in NotLatin1))

\* Whether the HttpUrl validates: the string is not too long, the scheme is
\* http or https, there is a host, the host is a domain, and the port is one.
IsHttpUrl(u) ==
    LET valid(p) ==
            /\ p.scheme \in HttpSchemes
            /\ p.host # <<>>
            /\ Range(p.host) \cap ForbiddenDomain = {}
            /\ IsPort(p.port)
    IN  Utf8Len(u) <= MaxUrlLength /\ valid(UrlParse(u))

\* str() of the HttpUrl of a string with IsHttpUrl; a default port is dropped
HttpUrl(u) ==
    LET written(p) ==
            p.scheme \o Chars("://") \o UrlUserinfo(p.userinfo) \o p.host
                \o (IF p.port = <<>> \/ PortValue(p.port) = DefaultPort(p.scheme)
                    THEN <<>> ELSE <<":">> \o IntToStr(PortValue(p.port)))
                \o UrlPath(p.path)
                \o (IF p.query = None THEN <<>>
                    ELSE <<"?">> \o PercentEncode(Get(p.query), QueryEncodeSet))
                \o (IF p.fragment = None THEN <<>>
                    ELSE <<"#">> \o PercentEncode(Get(p.fragment), FragmentEncodeSet))
    IN  written(UrlParse(u))

\* Whether Qr(**payload.model_dump()) validates: box_size ge=1 le=50,
\* border ge=0 le=20, logo_url None or an HttpUrl ("rounded" is ignored).
QrValid(payload) ==
    /\ payload.box_size >= 1 /\ payload.box_size <= 50
    /\ payload.border >= 0 /\ payload.border <= 20
    /\ (payload.logo_url = None \/ IsHttpUrl(Get(payload.logo_url)))

\* The document of a valid Qr; of the HttpUrl the collection keeps the string
Qr(payload) ==
    [content |-> StrCell(payload.content),
     fill_color |-> StrCell(payload.fill_color),
     back_color |-> StrCell(payload.back_color),
     box_size |-> IntCell(payload.box_size),
     border |-> IntCell(payload.border),
     error_correction |-> StrCell(payload.error_correction),
     logo_url |-> IF payload.logo_url = None THEN NullCell
                  ELSE StrCell(HttpUrl(Get(payload.logo_url)))]

(***************************************************************************)
(* The persistence collaborator (module database).                          *)
(***************************************************************************)
\* create_document("qr", doc): the write, or an exception
create_document(st, doc, dbo) ==
    IF dbo = "ok" THEN [raised |-> FALSE, store |-> Append(st, doc)]
    ELSE [raised |-> TRUE, store |-> st]

\* get_documents("qr", {}, limit): up to limit documents in insertion order,
\* or an exception
get_documents(st, limit, dbo) ==
    IF dbo = "ok" THEN [raised |-> FALSE, docs |-> SubSeq(st, 1, Min(limit, Len(st)))]
    ELSE [raised |-> TRUE, docs |-> <<>>]

DbCall(fn, limit) == [fn |-> fn, limit |-> limit]

(***************************************************************************)
(* POST /api/qrcode.png, main.py generate_qr_png.                           *)
(***************************************************************************)
\* the check without .strip()
IsBlankNoStrip(content) == content = <<>>

\* not payload.content.strip()
IsBlank(content) == Strip(content) = <<>>

\* the write without its try/except: what create_document raises propagates
PersistRequestNoExcept(payload, dbo, st) ==
    IF ~QrValid(payload) THEN [raised |-> FALSE, calls |-> <<>>, store |-> st]
    ELSE LET w == create_document(st, Qr(payload), dbo)
         IN  [raised |-> w.raised,
              calls |-> <<DbCall("create_document", 0)>>,
              store |-> w.store]

\* main.py lines 123-127: the Qr document is built and written; whatever
\* either step raises is dropped.
PersistRequest(payload, dbo, st) ==
    IF ~QrValid(payload) THEN [raised |-> FALSE, calls |-> <<>>, store |-> st]
    ELSE LET w == create_document(st, Qr(payload), dbo)
         IN  [raised |-> FALSE,
              calls |-> <<DbCall("create_document", 0)>>,
              store |-> w.store]

Outcome(r, e, c, st) == [resp |-> r, enc |-> e, dbCalls |-> c, store |-> st]

\* main.py lines 93-98: the arguments of qrcode.QRCode
QRCode(payload) ==
    [error_correction |-> EcLevel(payload.error_correction),
     box_size |-> payload.box_size,
     border |-> payload.border]

\* The handler from the payload to its response: fo is what the logo fetch
\* does, dbo what the database does, st the collection when line 125 is
\* reached.
generate_qr_png(payload, fo, dbo, st) ==
    IF IsBlank(payload.content)
    THEN Outcome(HTTPException(400, "content is required"), None, <<>>, st)
    ELSE
      LET call == QRCode(payload)
      IN  IF ~QRCodeAccepts(call) \/ ~MakeImageAccepts(payload)
          THEN Outcome(InternalServerError, Some(call), <<>>, st)
          ELSE
            LET img0 == MakeImage(call, payload)
                img1 == IF payload.rounded
                        THEN RoundedSquare(img0, Max(4, payload.box_size))
                        ELSE img0
                img2 == WithLogo(img1, payload.logo_url, fo)
                p == PersistRequest(payload, dbo, st)
            IN  IF LogoResizeRaises(img1, payload.logo_url, fo)
                THEN Outcome(InternalServerError, Some(call), <<>>, st)
                ELSE IF p.raised
                THEN Outcome(InternalServerError, Some(call), p.calls, p.store)
                ELSE Outcome(StreamingResponse(img2), Some(call), p.calls, p.store)

(***************************************************************************)
(* GET /api/history, main.py get_history.                                   *)
(***************************************************************************)
\* limit: int = Query(12, ge=1, le=50): a request with no limit uses 12
DefaultLimit == 12
LimitOf(h) == IF h.limit = None THEN DefaultLimit ELSE Get(h.limit)
\* the query parameter without ge=1, le=50
ValidLimitNoRange(h) == ~h.illtyped

ValidLimit(h) == ~h.illtyped /\ LimitOf(h) >= 1 /\ LimitOf(h) <= 50

\* d[field] in place of d.get(field, default)
DocGetNoDefault(d, field, default) == d[field]

\* d.get(field, default)
DocGet(d, field, default) == IF d[field].t = "absent" THEN default ELSE d[field]

\* int(x) returns: for an int and for a numeric string
IntOk(c) == c.t = "int" \/ (c.t = "str" /\ IsNumeric(c.s))
IntOf(c) == IF c.t = "int" THEN c.n ELSE ParseInt(c.s)

\* str(x)
StrOf(c) ==
    CASE c.t = "str" -> c.s
      [] c.t = "int" -> IntToStr(c.n)
      [] OTHER -> Chars("None")

\* Whether the HistoryItem of document d can be built: content and the colours
\* must be strings, int() must accept box_size and border, and logo_url must
\* be a string or None.
ItemOk(d) ==
    /\ DocGet(d, "content", StrCell(<<>>)).t = "str"
    /\ DocGet(d, "fill_color", StrCell(DefaultFill)).t = "str"
    /\ DocGet(d, "back_color", StrCell(DefaultBack)).t = "str"
    /\ IntOk(DocGet(d, "box_size", IntCell(10)))
    /\ IntOk(DocGet(d, "border", IntCell(4)))
    /\ d["logo_url"].t \in {"absent", "null", "str"}

\* main.py lines 153-161
HistoryItem(d) ==
    [content |-> DocGet(d, "content", StrCell(<<>>)).s,
     fill_color |-> DocGet(d, "fill_color", StrCell(DefaultFill)).s,
     back_color |-> DocGet(d, "back_color", StrCell(DefaultBack)).s,
     box_size |-> IntOf(DocGet(d, "box_size", IntCell(10))),
     border |-> IntOf(DocGet(d, "border", IntCell(4))),
     error_correction |-> StrOf(DocGet(d, "error_correction", StrCell(DefaultEc))),
     logo_url |-> IF d["logo_url"].t = "str" THEN Some(d["logo_url"].s) ELSE None]

\* main.py lines 163-164: except Exception
HistoryOnError == JSONResponse(<<>>)

\* dbo "import_error": from database import get_documents raises
get_history(limit, dbo, st) ==
    IF dbo = "import_error"
    THEN Outcome(HistoryOnError, None, <<>>, st)
    ELSE
      LET r == get_documents(st, limit, dbo)
          calls == <<DbCall("get_documents", limit)>>
      IN  IF r.raised THEN Outcome(HistoryOnError, None, calls, st)
          ELSE IF \E i \in 1..Len(r.docs) : ~ItemOk(r.docs[i])
          THEN Outcome(HistoryOnError, None, calls, st)
          ELSE Outcome(JSONResponse([i \in 1..Len(r.docs) |-> HistoryItem(r.docs[i])]),
                       None, calls, st)

(***************************************************************************)
(* The requests and the outcomes of the outside world the model draws from. *)
(***************************************************************************)
UrlOk == Chars("http://h/l")
\* a URL to the Qr schema; requests cannot write its password as Latin-1
UrlAuth == <<"h", "t", "t", "p", ":", "/", "/", "u", ":", "U+2003", "@", "h", "/", "l">>
\* a URL one character longer than the Qr schema takes
UrlTooLong == Chars("http://h/") \o [i \in 1..(MaxUrlLength - 8) |-> "a"]

Blank3 == Chars("   ")
BlankCr == <<"\r">>
BlankMixed == <<"\f", "U+001F", "U+00A0", "U+2003", "\n">>
NonBlank == Chars(" a")
Contents == {<<>>, Blank3, NonBlank}
BoxSizes == {0, DefaultBoxSize, 51}
Borders == {0 - 1, DefaultBorder, 21}
LogoUrls == {Some(UrlOk), Some(<<>>)}
\* A URL without a path and no URL at all; the same URL as UrlOk to the Qr
\* schema and to requests; a URL to the Qr schema and none to requests; a URL
\* to requests and none to the Qr schema.
MoreLogoUrls ==
    {Some(Chars("http://h")), Some(Chars("logo")),
     Some(Chars(" HTTP://H:80/./l")),
     Some(Chars("http:/h/l")),
     Some(Chars("http://h^/l")),
     Some(Chars("http://h:81\n/l")),
     Some(Blank3), Some(UrlAuth), Some(UrlTooLong)}
EcSamples ==
    {Chars(e) :
        e \in {"L", "l", "M", "m", "Q", "q", "H", "h", "x", "X", "", "LM", " q",
               "a", "Low"}}

BaseFields ==
    [content |-> NonBlank, fill_color |-> DefaultFill, back_color |-> DefaultBack,
     box_size |-> DefaultBoxSize, border |-> DefaultBorder,
     error_correction |-> DefaultEc, rounded |-> TRUE, logo_url |-> None]

Raw(f) == [fields |-> f, absent |-> {}, illtyped |-> {}]

OptionalFields ==
    {"fill_color", "back_color", "box_size", "border", "error_correction",
     "rounded", "logo_url"}

\* content, box size, border and logo URL in every combination
FieldRequests ==
    {Raw([BaseFields EXCEPT !.content = c, !.box_size = b, !.border = d,
                            !.logo_url = u]) :
        c \in Contents, b \in BoxSizes, d \in Borders, u \in {None} \cup LogoUrls}

\* error-correction level and rounding in every combination, for a blank and
\* a non-blank content, without and with a logo
LevelRequests ==
    {Raw([BaseFields EXCEPT !.content = c, !.error_correction = e, !.rounded = r,
                            !.logo_url = u]) :
        c \in {Blank3, NonBlank}, e \in {Chars("M"), Chars("q"), Chars("x")},
        r \in BOOLEAN, u \in {None, Some(UrlOk)}}

\* content of every kind of whitespace
BlankRequests ==
    {Raw([BaseFields EXCEPT !.content = c, !.box_size = b, !.logo_url = u]) :
        c \in {BlankCr, BlankMixed}, b \in BoxSizes, u \in {None, Some(UrlOk)}}

\* the other ways to write a logo URL
UrlRequests == {Raw([BaseFields EXCEPT !.logo_url = u]) : u \in MoreLogoUrls}

\* colours Pillow reads, and colours it does not; the last two are a colour of
\* the greatest length it reads, and the same colour one character longer
ColorRequests ==
    {Raw([BaseFields EXCEPT !.fill_color = Chars(c[1]), !.back_color = Chars(c[2]),
                            !.logo_url = u]) :
        c \in {<<"Red", "#000">>, <<"rgb(1, 2,3)", "Transparent">>,
               <<"zz", "#ffffff">>, <<"transparent", "#ffffff">>,
               <<"#111827", "#12">>, <<"hsl(1.5,2%,3%)", "rgb(1,2)">>},
        u \in {None}}
    \cup {Raw([BaseFields EXCEPT !.fill_color = Chars("zz"), !.logo_url = Some(UrlOk)]),
          Raw([BaseFields EXCEPT !.fill_color = Chars("Red"), !.logo_url = Some(UrlOk)])}
    \cup {Raw([BaseFields EXCEPT !.fill_color =
                  Chars("rgb(") \o [i \in 1..(n - 10) |-> " "] \o Chars("1,2,3)")]) :
             n \in {MaxColorLength, MaxColorLength + 1}}

\* fields left out, and fields of the wrong type
OtherRequests ==
    {Raw([BaseFields EXCEPT !.content = <<"\r", "a", "\r">>]),
     [fields |-> [BaseFields EXCEPT !.box_size = 51, !.rounded = FALSE],
      absent |-> OptionalFields, illtyped |-> {}],
     [fields |-> BaseFields, absent |-> {"content"}, illtyped |-> {}],
     [fields |-> [BaseFields EXCEPT !.content = <<>>], absent |-> {},
      illtyped |-> {"box_size"}]}

Requests ==
    FieldRequests \cup LevelRequests \cup BlankRequests \cup UrlRequests \cup ColorRequests
        \cup OtherRequests

\* every spelling of the error-correction level, for two box sizes, and three
\* of them with a logo
EcRequests ==
    {Raw([BaseFields EXCEPT !.error_correction = e, !.box_size = b]) :
        e \in EcSamples, b \in {0, DefaultBoxSize}}
    \cup {Raw([BaseFields EXCEPT !.error_correction = Chars(e), !.logo_url = Some(UrlOk)]) :
            e \in {"h", "x", " q"}}

NoRaw == Raw(BaseFields)

HistoryRequest(limit, illtyped) == [limit |-> limit, illtyped |-> illtyped]
NoHistoryRequest == HistoryRequest(None, FALSE)
HistoryRequests ==
    {HistoryRequest(None, FALSE), HistoryRequest(None, TRUE)}
    \cup {HistoryRequest(Some(n), FALSE) : n \in {0 - 1, 0, 1, 2, 50, 51}}
\* no limit, a limit that cuts the collection short, and a limit out of range
FewHistoryRequests ==
    {HistoryRequest(None, FALSE), HistoryRequest(Some(1), FALSE),
     HistoryRequest(Some(0), FALSE)}

\* the sizes of the logos a fetch returns
LogoSamples == {<<100, 50>>, <<30, 90>>, <<200, 1>>}

\* Whether the handler gets as far as line 110 and calls _fetch_logo
ReachesFetch(payload) ==
    /\ ~IsBlank(payload.content)
    /\ QRCodeAccepts(payload)
    /\ MakeImageAccepts(payload)
    /\ Truthy(payload.logo_url)

\* Whether the handler of a request calls requests.get, main.py line 60
Waits(raw) == ValidQRRequest(raw) /\ ReachesFetch(QRRequest(raw))

\* What the logo fetch of a request can do.  A request that requests.get does
\* not send opens no connection: the fetch ends as "invalid_url".
FetchChoices(raw) ==
    IF Waits(raw)
    THEN IF RequestSent(Get(QRRequest(raw).logo_url))
         THEN {[kind |-> k, w |-> 0, h |-> 0] : k \in FetchFailures \ {"invalid_url"}}
              \cup {[kind |-> "ok", w |-> l[1], h |-> l[2]] : l \in LogoSamples}
         ELSE {[kind |-> "invalid_url", w |-> 0, h |-> 0]}
    ELSE {NoFetch}

(***************************************************************************)
(* The state machine.  FastAPI runs the handlers, which are plain           *)
(* functions, in a pool of threads: while one waits in requests.get, others *)
(* are served.  A handler reads or writes the collection with one call, and *)
(* shares nothing else with the others; it is one step, or two when it      *)
(* calls requests.get: up to the call, and from its return to the response. *)
(***************************************************************************)
NoLogoIn == [q_w |-> 0, q_h |-> 0, w |-> 0, h |-> 0]

NoRequest == [kind |-> "none", raw |-> NoRaw, hist |-> NoHistoryRequest]
NoEnv == [fetch |-> NoFetch, db |-> "ok"]

Idle ==
    /\ waiting = {}
    /\ before = <<>>
    /\ req = NoRequest
    /\ env = NoEnv
    /\ resp = NoResponse
    /\ enc = None
    /\ dbCalls = <<>>

\* the service starts with an empty collection
Init == store = <<>> /\ Idle /\ logoIn = NoLogoIn /\ logoOut = None

\* The request raw is answered: its logo fetch did fo, the database does dbo.
Answer(raw, fo, dbo) ==
    LET answered(o) ==
            /\ req' = [kind |-> "post", raw |-> raw, hist |-> NoHistoryRequest]
            /\ env' = [fetch |-> fo, db |-> dbo]
            /\ before' = store
            /\ store' = o.store
            /\ resp' = o.resp
            /\ enc' = o.enc
            /\ dbCalls' = o.dbCalls
    IN  answered(IF ValidQRRequest(raw)
                 THEN generate_qr_png(QRRequest(raw), fo, dbo, store)
                 ELSE Outcome(UnprocessableEntity, None, <<>>, store))

\* POST /api/qrcode.png with a request of the set rs whose handler does not
\* call requests.get
PostQr(rs) ==
    /\ req.kind = "none"
    /\ Len(store) + Cardinality(waiting) < MaxStore
    /\ \E raw \in rs, dbo \in {"ok", "raise"} :
        /\ ~Waits(raw)
        /\ Answer(raw, NoFetch, dbo)
    /\ UNCHANGED <<waiting, logoIn, logoOut>>

\* POST /api/qrcode.png with a request of the set rs whose handler calls
\* requests.get: the QR image is made (main.py lines 90-107), and the handler
\* waits for the logo (line 60).  The handlers that wait differ.
PostQrFetch(rs) ==
    /\ req.kind = "none"
    /\ Cardinality(waiting) < MaxWaiting
    /\ Len(store) + Cardinality(waiting) < MaxStore
    /\ \E raw \in rs :
        /\ Waits(raw)
        /\ waiting' = waiting \cup {[raw |-> raw, enc |-> Some(QRCode(QRRequest(raw)))]}
    /\ UNCHANGED <<store, before, req, env, resp, enc, dbCalls, logoIn, logoOut>>

\* requests.get returns or raises in a handler that waits, and the handler
\* goes on to its response (main.py lines 61-65 and 111-132)
FetchReturns ==
    /\ req.kind = "none"
    /\ \E w \in waiting, dbo \in {"ok", "raise"} :
        \E fo \in FetchChoices(w.raw) :
            /\ Answer(w.raw, fo, dbo)
            /\ waiting' = waiting \ {w}
    /\ UNCHANGED <<logoIn, logoOut>>

\* GET /api/history with a request of the set hs
GetHistory(hs) ==
    /\ req.kind = "none"
    /\ \E h \in hs, dbo \in {"ok", "raise", "import_error"} :
        LET o == IF ValidLimit(h)
                 THEN get_history(LimitOf(h), dbo, store)
                 ELSE Outcome(UnprocessableEntity, None, <<>>, store)
        IN  /\ req' = [kind |-> "history", raw |-> NoRaw, hist |-> h]
            /\ env' = [fetch |-> NoFetch, db |-> dbo]
            /\ before' = store
            /\ store' = o.store
            /\ resp' = o.resp
            /\ enc' = o.enc
            /\ dbCalls' = o.dbCalls
    /\ UNCHANGED <<waiting, logoIn, logoOut>>

\* The answer has been looked at: nothing of a request but the collection is
\* left for the others.
Complete ==
    /\ req.kind # "none"
    /\ before' = <<>>
    /\ req' = NoRequest
    /\ env' = NoEnv
    /\ resp' = NoResponse
    /\ enc' = None
    /\ dbCalls' = <<>>
    /\ UNCHANGED <<store, waiting, logoIn, logoOut>>

Next ==
    \/ PostQr(Requests)
    \/ PostQrFetch(Requests)
    \/ FetchReturns
    \/ GetHistory(FewHistoryRequests)
    \/ Complete

Spec == Init /\ [][Next]_vars

\* The same service, asked for every spelling of the error-correction level.
NextEc ==
    \/ PostQr(EcRequests)
    \/ PostQrFetch(EcRequests)
    \/ FetchReturns
    \/ GetHistory(FewHistoryRequests)
    \/ Complete

SpecEc == Init /\ [][NextEc]_vars

(***************************************************************************)
(* The history endpoint over a collection that already holds documents,     *)
(* among them documents this service did not write: fields left out, null,  *)
(* or of another type.                                                      *)
(***************************************************************************)
GoodDoc ==
    Qr([BaseFields EXCEPT !.error_correction = Chars("q"), !.logo_url = Some(UrlOk)])

EmptyDoc == [f \in DocFields |-> AbsentCell]

DocSamples ==
    {GoodDoc,
     Qr(BaseFields),
     EmptyDoc,
     [EmptyDoc EXCEPT !["content"] = StrCell(Chars("b"))],
     [GoodDoc EXCEPT !["box_size"] = NullCell],
     [GoodDoc EXCEPT !["box_size"] = StrCell(Chars("abc"))],
     [GoodDoc EXCEPT !["border"] = StrCell(Chars(" -17"))],
     [GoodDoc EXCEPT !["box_size"] = StrCell(Chars("1_0")),
                     !["border"] = StrCell(<<"\r", "+", "0", "2", "U+2003">>)],
     [GoodDoc EXCEPT !["box_size"] = StrCell(<<"U+001C", "1", "2">>)],
     [GoodDoc EXCEPT !["border"] = StrCell(Chars("1__0"))],
     [GoodDoc EXCEPT !["content"] = NullCell],
     [GoodDoc EXCEPT !["error_correction"] = IntCell(5)],
     [GoodDoc EXCEPT !["logo_url"] = IntCell(7)],
     [GoodDoc EXCEPT !["error_correction"] = NullCell,
                     !["logo_url"] = AbsentCell]}

SeqsUpTo(S, n) == UNION {[1..k -> S] : k \in 0..n}

InitHistory ==
    /\ store \in SeqsUpTo(DocSamples, MaxDocs)
    /\ Idle
    /\ logoIn = NoLogoIn
    /\ logoOut = None

NextHistory == GetHistory(HistoryRequests) \/ Complete

SpecHistory == InitHistory /\ [][NextHistory]_vars

(***************************************************************************)
(* The logo sizing of main.py lines 113-115 on its own: a QR image of the   *)
(* smallest version, and a fetched logo of every size up to MaxLogoSide.    *)
(***************************************************************************)
LogoQrSides ==
    {QrSide([box_size |-> b, border |-> d]) : b \in {1, 2}, d \in {0, DefaultBorder}}

\* q_w, q_h = img.size: the encoder's image is a square
InitLogo ==
    /\ store = <<>>
    /\ Idle
    /\ logoIn \in {[q_w |-> q, q_h |-> q, w |-> w, h |-> h] :
                      q \in LogoQrSides, w \in 1..MaxLogoSide, h \in 1..MaxLogoSide}
    /\ logoOut = None

\* target = int(min(q_w, q_h) * 0.2); logo = ImageOps.contain(logo, (target, target)):
\* the logo is resized, or the resize raises and the request is answered 500
ContainLogo ==
    /\ logoOut = None
    /\ resp = NoResponse
    /\ logoIn # NoLogoIn
    /\ LET resized(size) ==
               IF ResizeAccepts(size)
               THEN logoOut' = Some(size) /\ resp' = resp
               ELSE logoOut' = None /\ resp' = InternalServerError
           contained(target) ==
               resized(Contain([w |-> logoIn.w, h |-> logoIn.h], target, target))
       IN  contained(LogoTarget(logoIn.q_w, logoIn.q_h))
    /\ UNCHANGED <<store, waiting, before, req, env, enc, dbCalls, logoIn>>

NextLogo == ContainLogo

SpecLogo == InitLogo /\ [][NextLogo]_vars

(***************************************************************************)
(* The claims.                                                              *)
(***************************************************************************)
Post == req.kind = "post" /\ ValidQRRequest(req.raw)
Payload == QRRequest(req.raw)
History == req.kind = "history"

OnlyWhitespace(c) == \A i \in 1..Len(c) : c[i] \in Whitespace

\* C1: a POST whose content is empty or only whitespace is answered 400
\* "content is required", whatever its other fields are, and neither the
\* encoder nor the persistence collaborator is called: the collection is as
\* it was.
C1_BlankContentRejected ==
    (Post /\ OnlyWhitespace(Payload.content)) =>
        /\ resp.status = 400
        /\ resp.detail = "content is required"
        /\ resp.png = None
        /\ enc = None
        /\ dbCalls = <<>>
        /\ store = before

C1_Witness ==
    /\ Post
    /\ Payload.content = BlankMixed
    /\ Payload.box_size = 0
    /\ Payload.logo_url = Some(UrlOk)
    /\ resp.status = 400

\* C2 (as claimed): every POST answered 200 while the database is available
\* leaves exactly one new document, a copy of the request's fields, also for
\* a box size outside 1..50, a border outside 0..20 and a logo_url that is
\* no HTTP URL.
C2_EveryOkRequestRecorded ==
    (Post /\ resp.status = 200 /\ env.db = "ok") =>
        /\ Len(store) = Len(before) + 1
        /\ SubSeq(store, 1, Len(before)) = before
        /\ LET d == store[Len(store)]
           IN  /\ d["content"] = StrCell(Payload.content)
               /\ d["fill_color"] = StrCell(Payload.fill_color)
               /\ d["back_color"] = StrCell(Payload.back_color)
               /\ d["box_size"] = IntCell(Payload.box_size)
               /\ d["border"] = IntCell(Payload.border)
               /\ d["error_correction"] = StrCell(Payload.error_correction)
               /\ d["logo_url"] = IF Payload.logo_url = None THEN NullCell
                                  ELSE StrCell(Get(Payload.logo_url))

Levels == {Chars("L"), Chars("M"), Chars("Q"), Chars("H")}

\* C3 (as claimed): every document of the history carries an error-correction
\* level that is one of L, M, Q, H.
C3_StoredLevelNormalized ==
    \A i \in 1..Len(store) :
        /\ store[i]["error_correction"].t = "str"
        /\ store[i]["error_correction"].s \in Levels

\* the level each spelling stands for
C4_Expected(e) ==
    CASE e \in {Chars("L"), Chars("l")} -> "ERROR_CORRECT_L"
      [] e \in {Chars("M"), Chars("m")} -> "ERROR_CORRECT_M"
      [] e \in {Chars("Q"), Chars("q")} -> "ERROR_CORRECT_Q"
      [] e \in {Chars("H"), Chars("h")} -> "ERROR_CORRECT_H"
      [] OTHER -> "ERROR_CORRECT_M"

\* C4: for a POST with non-blank content the encoder receives L, M, Q or H for
\* l, m, q or h in either case and M for any other value; an unrecognised
\* value raises no error: the response is the one to the same request with
\* error_correction "M", which is 200 whenever the encoder accepts the box
\* size, the border and the colours and no logo is asked for.
C4_LevelNormalizedForEncoder ==
    (Post /\ ~OnlyWhitespace(Payload.content)) =>
        /\ enc # None
        /\ Get(enc).error_correction = C4_Expected(Payload.error_correction)
        /\ (C4_Expected(Payload.error_correction) = "ERROR_CORRECT_M" =>
              LET m == generate_qr_png([Payload EXCEPT !.error_correction = <<"M">>],
                                       env.fetch, env.db, before)
              IN  /\ enc = m.enc
                  /\ resp.status = m.resp.status
                  /\ ((/\ Payload.box_size >= 1
                       /\ Payload.border >= 0
                       /\ MakeImageAccepts(Payload)
                       /\ Payload.logo_url = None) =>
                        resp.status = 200))

C4_Witness ==
    /\ Post
    /\ Payload.error_correction = Chars(" q")
    /\ resp.status = 200
    /\ enc # None
    /\ Get(enc).error_correction = "ERROR_CORRECT_M"

\* C5: a failure of the persistence collaborator never reaches the client.
\* When create_document raises, the POST is answered 200 with the PNG it is
\* answered with when the write succeeds; when get_documents raises or the
\* database module cannot be imported, GET /api/history is answered 200 with
\* the empty list.
C5_PersistenceFailureHidden ==
    /\ (Post /\ dbCalls # <<>> /\ env.db = "raise") =>
          /\ resp.status = 200
          /\ resp.png # None
          /\ resp = generate_qr_png(Payload, env.fetch, "ok", before).resp
          /\ store = before
    /\ (History /\ ValidLimit(req.hist) /\ env.db # "ok") =>
          /\ resp.status = 200
          /\ resp.json = <<>>
          /\ store = before

C5_Witness ==
    /\ Post
    /\ dbCalls = <<DbCall("create_document", 0)>>
    /\ env.db = "raise"
    /\ Payload.logo_url = Some(UrlOk)
    /\ env.fetch.kind = "ok"
    /\ resp.status = 200
    /\ store = before

\* C6: when the logo fetch of a POST fails (no usable URL, network error,
\* timeout, error status, undecodable bytes), the POST is answered 200 with
\* the image of the same request without logo_url: no backing square and no
\* logo.
C6_FailedLogoIsNoLogo ==
    (Post /\ env.fetch.kind \in FetchFailures) =>
        /\ resp.status = 200
        /\ resp.png # None
        /\ Get(resp.png).overlay = None
        /\ resp = generate_qr_png([Payload EXCEPT !.logo_url = None], NoFetch,
                                  env.db, before).resp

C6_Witness ==
    /\ Post
    /\ Payload.logo_url = Some(UrlOk)
    /\ env.fetch.kind = "undecodable"
    /\ Payload.rounded
    /\ resp.status = 200
    /\ Get(resp.png).overlay = None

\* C7: GET /api/history with a limit N in 1..50 returns at most N items; a
\* limit below 1 or above 50 is rejected; get_documents is never called with a
\* limit outside 1..50; without a limit, 12 is used.
C7_LimitBoundsHistory ==
    History =>
        /\ \A i \in 1..Len(dbCalls) :
              /\ dbCalls[i].fn = "get_documents"
              /\ dbCalls[i].limit >= 1
              /\ dbCalls[i].limit <= 50
        /\ (req.hist.limit # None /\ ~req.hist.illtyped) =>
              LET n == Get(req.hist.limit)
              IN  IF n >= 1 /\ n <= 50
                  THEN /\ resp.status = 200
                       /\ Len(resp.json) <= n
                       /\ \A i \in 1..Len(dbCalls) : dbCalls[i].limit = n
                  ELSE /\ resp.status = 422
                       /\ dbCalls = <<>>
        /\ (req.hist.limit = None /\ ~req.hist.illtyped) =>
              /\ resp.status = 200
              /\ Len(resp.json) <= 12
              /\ \A i \in 1..Len(dbCalls) : dbCalls[i].limit = 12

C7_Witness ==
    /\ History
    /\ req.hist.limit = Some(1)
    /\ Len(store) = 2
    /\ env.db = "ok"
    /\ dbCalls = <<DbCall("get_documents", 1)>>
    /\ Len(resp.json) = 1

\* C8 (as claimed): a POST whose box_size is not positive or whose border is
\* negative is rejected by request validation, before the encoder is called
\* and before anything is written.
C8_RangeRejectedByValidation ==
    (req.kind = "post" /\ (Payload.box_size <= 0 \/ Payload.border < 0)) =>
        /\ resp.status = 422
        /\ enc = None
        /\ dbCalls = <<>>
        /\ store = before

\* the documents get_documents returned to the last GET /api/history
C9_Docs == SubSeq(store, 1, Min(LimitOf(req.hist), Len(store)))

C9_Answered == History /\ ValidLimit(req.hist) /\ env.db = "ok"

\* C9 (as claimed): when get_documents succeeds, the response has one item
\* per document returned, whatever fields of a document are missing, null or
\* not numeric.
C9_OneItemPerRecord ==
    C9_Answered => (resp.status = 200 /\ Len(resp.json) = Len(C9_Docs))

\* a field the response can carry: a string for content and the colours, an
\* integer or a numeric string for box_size and border, a string or null for
\* logo_url; a field left out always can
C9_Usable(d) ==
    /\ \A f \in {"content", "fill_color", "back_color"} : d[f].t \in {"absent", "str"}
    /\ \A f \in {"box_size", "border"} :
          \/ d[f].t \in {"absent", "int"}
          \/ (d[f].t = "str" /\ IsNumeric(d[f].s))
    /\ d["logo_url"].t \in {"absent", "null", "str"}

C9_Text(c, default) == IF c.t = "absent" THEN default ELSE c.s

C9_Number(c, default) ==
    CASE c.t = "absent" -> default
      [] c.t = "int" -> c.n
      [] OTHER -> ParseInt(c.s)

C9_Level(c) ==
    CASE c.t = "absent" -> Chars("M")
      [] c.t = "str" -> c.s
      [] c.t = "int" -> IntToStr(c.n)
      [] OTHER -> Chars("None")

C9_Item(d) ==
    [content |-> C9_Text(d["content"], <<>>),
     fill_color |-> C9_Text(d["fill_color"], Chars("#111827")),
     back_color |-> C9_Text(d["back_color"], Chars("#ffffff")),
     box_size |-> C9_Number(d["box_size"], 10),
     border |-> C9_Number(d["border"], 4),
     error_correction |-> C9_Level(d["error_correction"]),
     logo_url |-> IF d["logo_url"].t = "str" THEN {d["logo_url"].s} ELSE {}]

\* C9 (amended): when get_documents succeeds and every document returned is
\* usable, the response has one item per document, in the same order, a field
\* left out replaced by its default and a field present returned as stored
\* (box_size and border through int(), error_correction through str()); if
\* one document returned is not usable, the response is the empty list.
C9_ItemsOrNothing ==
    C9_Answered =>
        /\ resp.status = 200
        /\ IF \A i \in 1..Len(C9_Docs) : C9_Usable(C9_Docs[i])
           THEN /\ Len(resp.json) = Len(C9_Docs)
                /\ \A i \in 1..Len(C9_Docs) : resp.json[i] = C9_Item(C9_Docs[i])
           ELSE resp.json = <<>>

C9_Witness ==
    /\ C9_Answered
    /\ Len(store) = 2
    /\ store[1] = EmptyDoc
    /\ store[2]["box_size"] = StrCell(Chars("1_0"))
    /\ Len(resp.json) = 2
    /\ resp.json[1].box_size = 10
    /\ resp.json[1].error_correction = Chars("M")
    /\ resp.json[2].box_size = 10
    /\ resp.json[2].border = 2
    /\ resp.json[2].error_correction = Chars("q")

C10_Target == Min(logoIn.q_w, logoIn.q_h) \div 5

\* C10 (as claimed): the logo is resized into the square of side
\* floor(0.2 * min(W, H)) and never upscaled: the resized width is at most
\* min(w, target) and the resized height at most min(h, target).
C10_NeverUpscaled ==
    logoOut # None =>
        /\ Get(logoOut).w <= Min(logoIn.w, C10_Target)
        /\ Get(logoOut).h <= Min(logoIn.h, C10_Target)

C10_Abs(x) == IF x < 0 THEN 0 - x ELSE x

\* the logo's shorter side, scaled as its longer side is to reach the target,
\* is half a pixel or less
C10_TooElongated ==
    2 * Min(logoIn.w, logoIn.h) * C10_Target <= Max(logoIn.w, logoIn.h)

\* C10 (amended): a logo whose shorter side scales to half a pixel or less
\* is not resized: the request is answered 500.  Every other logo is resized
\* to fit the square of side floor(0.2 * min(W, H)) exactly, upscaled if it
\* is smaller: its longer side becomes the target and its shorter side the
\* target scaled by the logo's aspect ratio, to within one pixel, and at
\* least one pixel.
C10_FitsTargetExactly ==
    /\ resp # NoResponse =>
           /\ resp = InternalServerError
           /\ logoOut = None
           /\ C10_TooElongated
    /\ logoOut # None =>
           LET o == Get(logoOut)
               t == C10_Target
           IN  /\ ~C10_TooElongated
               /\ 1 <= o.w /\ o.w <= t
               /\ 1 <= o.h /\ o.h <= t
               /\ logoIn.w >= logoIn.h =>
                     (o.w = t /\ C10_Abs(o.h * logoIn.w - logoIn.h * t) < logoIn.w)
               /\ logoIn.h >= logoIn.w =>
                     (o.h = t /\ C10_Abs(o.w * logoIn.h - logoIn.w * t) < logoIn.h)

C10_Witness ==
    /\ logoOut # None
    /\ logoIn.w = 2 /\ logoIn.h = 1 /\ logoIn.q_w = 21 /\ logoIn.q_h = 21
    /\ Get(logoOut) = [w |-> 4, h |-> 2]

====
